---- MODULE Spec2Model ----
(***************************************************************************)
(* Verification model of the workflow step scheduling core:                *)
(*   flow_coordinator.py  - ParallelStepExecutionCoordinator and the       *)
(*                          layering of the execution graph.               *)
(*   branching_manager.py - BranchingManager, the registry of branch masks.*)
(* Node names are the integers 1..MaxNodes, the synthetic source "<start>" *)
(* is 0.  Every edge goes from a smaller to a larger name, which gives     *)
(* every acyclic graph over the nodes up to renaming.                      *)
(***************************************************************************)
EXTENDS Integers, Sequences, FiniteSets, TLC

MaxNodes == 3
MaxCalls == 4
MaxBranches == 2
MaxIndex == 2
\* How far the caller's graph may drift from the graph passed to init().
MaxMutations == 1

Nodes == 1..MaxNodes
super_start_node == 0

STEP_NODE == "STEP_NODE"
DATA_NODE == "DATA_NODE"

\* Optional[...] values: None and a present value.
None == [isNone |-> TRUE, val |-> <<>>]
Some(x) == [isNone |-> FALSE, val |-> x]

VARIABLES
    execution_graph,    \* self._execution_graph: [kind, edges]
    discarded_steps,    \* self._discarded_steps
    execution_order,    \* self.__execution_order: None or Some(list of layers)
    execution_pointer,  \* self.__execution_pointer
    steps_to_discard,   \* argument of the latest get_steps_to_execute_next call
    history,            \* the calls made so far: [ret, ptr] per call
    masks,              \* BranchingManager._masks
    batch_compatibility,\* BranchingManager._batch_compatibility
    registered,         \* the successful register calls: [value, batch] per branch
    bm_result,          \* outcome of the latest BranchingManager operation
    running,            \* executor: steps of the current wave still to complete
    exec_query,         \* executor: [step, branch] of its latest manager call
    caller_graph,       \* the nx.DiGraph object the caller passed to init()
    constructed_graph   \* value of the caller's graph when init() was called

coordinatorVars == <<execution_graph, discarded_steps, execution_order,
                     execution_pointer, steps_to_discard, history>>

managerVars == <<masks, batch_compatibility, registered, bm_result>>

executorVars == <<running, exec_query>>

callerVars == <<caller_graph, constructed_graph>>

vars == <<execution_graph, discarded_steps, execution_order, execution_pointer,
          steps_to_discard, history, masks, batch_compatibility, registered,
          bm_result, running, exec_query, caller_graph, constructed_graph>>

----------------------------------------------------------------------------
\* The acyclic execution graphs over Nodes.
AllEdges == {e \in Nodes \X Nodes : e[1] < e[2]}

Graphs == [kind : [Nodes -> {STEP_NODE, DATA_NODE}], edges : SUBSET AllEdges]

predecessors(g, n) == {e[1] : e \in {x \in g.edges : x[2] = n}}

successors(g, n) == {e[2] : e \in {x \in g.edges : x[1] = n}}

get_nodes_of_specific_category(g, category) == {n \in Nodes : g.kind[n] = category}

\* A set of integers as the list of its elements in ascending order.
RECURSIVE SortedSeq(_)
SortedSeq(S) ==
    IF S = {} THEN <<>>
    ELSE LET m == CHOOSE x \in S : \A y \in S : x <= y
         IN <<m>> \o SortedSeq(S \ {m})

SetMax(S) == CHOOSE x \in S : \A y \in S : y <= x

\* Variant: nothing is copied, the coordinator holds the caller's object and
\* sees what the caller does to it.
execution_graph_alias(held, mutated) == mutated

\* self._execution_graph = execution_graph.copy(): the coordinator holds a
\* graph object of its own.  held is that object, mutated is the caller's
\* object after the caller changed it: the coordinator's object is as before.
execution_graph_copy(held, mutated) == held

----------------------------------------------------------------------------
\* Variant: every Step is tied to the source only, Step predecessors and
\* Step successors are not linked.
construct_steps_flow_graph_only_source(g, start) ==
    LET step_nodes == get_nodes_of_specific_category(g, STEP_NODE)
        edges == {<<start, s>> : s \in step_nodes}
    IN [nodes |-> {start} \cup step_nodes, edges |-> edges]

\* Variant: a Step with a non-Step predecessor is tied to the source only,
\* its Step predecessors are not linked.
construct_steps_flow_graph_source_replaces(g, start) ==
    LET step_nodes == get_nodes_of_specific_category(g, STEP_NODE)
        fromSource == {s \in step_nodes : predecessors(g, s) \ step_nodes # {}
                                            \/ predecessors(g, s) = {}}
        edges == {<<start, s>> : s \in fromSource}
                 \cup UNION {{<<p, s>> : p \in predecessors(g, s)} :
                                s \in step_nodes \ fromSource}
    IN [nodes |-> {start} \cup step_nodes, edges |-> edges]

\* construct_steps_flow_graph: the step-to-step adjacency plus the source.
construct_steps_flow_graph(g, start) ==
    LET step_nodes == get_nodes_of_specific_category(g, STEP_NODE)
        fromPredecessors ==
            UNION {{<<IF p \in step_nodes THEN p ELSE start, s>> :
                        p \in predecessors(g, s)} : s \in step_nodes}
        fromStart ==
            {<<start, s>> : s \in {x \in step_nodes : predecessors(g, x) = {}}}
        toSuccessors ==
            UNION {{<<s, t>> : t \in successors(g, s) \cap step_nodes} :
                        s \in step_nodes}
        edges == fromPredecessors \cup fromStart \cup toSuccessors
    IN [nodes |-> {start} \cup {e[1] : e \in edges} \cup {e[2] : e \in edges},
        edges |-> edges]

\* assign_max_distances_from_start: longest-path distance from the source.
RECURSIVE max_distance(_, _, _)
max_distance(graph, start, n) ==
    IF n = start THEN 0
    ELSE LET incoming == {e \in graph.edges : e[2] = n}
         IN SetMax({max_distance(graph, start, e[1]) + 1 : e \in incoming})

assign_max_distances_from_start(graph, start) ==
    [n \in graph.nodes |-> max_distance(graph, start, n)]

\* group_nodes_by_sorted_key_value: the nodes grouped by ascending distance.
group_nodes_by_sorted_key_value(graph, excluded_nodes, distance) ==
    LET kept == graph.nodes \ excluded_nodes
        values == SortedSeq({distance[n] : n \in kept})
    IN [i \in 1..Len(values) |->
            SortedSeq({n \in kept : distance[n] = values[i]})]

\* Variant: the source is not excluded from the grouping.
establish_execution_order_keeps_start(g) ==
    LET steps_flow_graph == construct_steps_flow_graph(g, super_start_node)
        distance == assign_max_distances_from_start(steps_flow_graph, super_start_node)
    IN group_nodes_by_sorted_key_value(steps_flow_graph, {}, distance)

establish_execution_order(g) ==
    LET steps_flow_graph == construct_steps_flow_graph(g, super_start_node)
        distance == assign_max_distances_from_start(steps_flow_graph, super_start_node)
    IN group_nodes_by_sorted_key_value(steps_flow_graph, {super_start_node}, distance)

----------------------------------------------------------------------------
\* Variant: a layer without candidates is returned instead of skipped.
RECURSIVE advance_pointer_returns_empty(_, _, _)
advance_pointer_returns_empty(order, ptr, discarded) ==
    IF ptr < Len(order)
    THEN [ptr |-> ptr + 1,
          ret |-> Some(SelectSeq(order[ptr + 1], LAMBDA e : e \notin discarded))]
    ELSE [ptr |-> ptr, ret |-> None]

\* Variant: the pointer is advanced past skipped layers only, not past the
\* layer that is returned.
RECURSIVE advance_pointer_no_increment(_, _, _)
advance_pointer_no_increment(order, ptr, discarded) ==
    IF ptr < Len(order)
    THEN LET candidate_steps == SelectSeq(order[ptr + 1], LAMBDA e : e \notin discarded)
         IN IF Len(candidate_steps) = 0
            THEN advance_pointer_no_increment(order, ptr + 1, discarded)
            ELSE [ptr |-> ptr, ret |-> Some(candidate_steps)]
    ELSE [ptr |-> ptr, ret |-> None]

\* Variant: the pointer starts over once the layers are exhausted.
RECURSIVE advance_pointer_wraps(_, _, _)
advance_pointer_wraps(order, ptr, discarded) ==
    IF ptr < Len(order)
    THEN LET candidate_steps == SelectSeq(order[ptr + 1], LAMBDA e : e \notin discarded)
         IN IF Len(candidate_steps) = 0
            THEN advance_pointer_wraps(order, ptr + 1, discarded)
            ELSE [ptr |-> ptr + 1, ret |-> Some(candidate_steps)]
    ELSE [ptr |-> 0, ret |-> None]

\* Variant: the pointer is advanced twice past the layer that is returned.
RECURSIVE advance_pointer_double_step(_, _, _)
advance_pointer_double_step(order, ptr, discarded) ==
    IF ptr < Len(order)
    THEN LET candidate_steps == SelectSeq(order[ptr + 1], LAMBDA e : e \notin discarded)
         IN IF Len(candidate_steps) = 0
            THEN advance_pointer_double_step(order, ptr + 1, discarded)
            ELSE [ptr |-> ptr + 2, ret |-> Some(candidate_steps)]
    ELSE [ptr |-> ptr, ret |-> None]

\* The while loop of get_steps_to_execute_next, from pointer ptr on.
RECURSIVE advance_pointer(_, _, _)
advance_pointer(order, ptr, discarded) ==
    IF ptr < Len(order)
    THEN LET candidate_steps == SelectSeq(order[ptr + 1], LAMBDA e : e \notin discarded)
         IN IF Len(candidate_steps) = 0
            THEN advance_pointer(order, ptr + 1, discarded)
            ELSE [ptr |-> ptr + 1, ret |-> Some(candidate_steps)]
    ELSE [ptr |-> ptr, ret |-> None]

----------------------------------------------------------------------------
\* BranchingManager.  Branch names are 1..MaxBranches, a DynamicBatchIndex is
\* a tuple of integers, and a Python value handed to or returned by the
\* manager is a bool, a set of indices or None.
Branches == 1..MaxBranches

Indices == {<<i>> : i \in 0..MaxIndex}

PyBool(b) == [kind |-> "bool", flag |-> b, indices |-> {}]
PySet(S) == [kind |-> "set", flag |-> FALSE, indices |-> S]
PyNone == [kind |-> "none", flag |-> FALSE, indices |-> {}]

\* The messages of the ValueError raised by the manager.
ReRegisterError == "Attempted to re-register maks for execution branch"
GetMaskError == "Attempted to get mask for not registered execution branch"
GetInfoError == "Attempted to get information about not registered execution branch"
NoError == ""

Returned(op, branch, value) ==
    [op |-> op, branch |-> branch, raised |-> NoError, value |-> value]

Raised(op, branch, error) ==
    [op |-> op, branch |-> branch, raised |-> error, value |-> PyNone]

NoOperation == Returned("init", 0, PyNone)

\* BranchingManager.init(): cls(masks={}).
BranchingManagerInit ==
    /\ masks = <<>>
    /\ batch_compatibility = <<>>
    /\ registered = <<>>
    /\ bm_result = NoOperation

\* Python truth value of a mask.
Truthy(value) ==
    \/ value.kind = "bool" /\ value.flag
    \/ value.kind = "set" /\ value.indices # {}

\* Variant: the orientation flag is the truth value of the mask.
register_batch_oriented_mask_truthy_flag(execution_branch, mask) ==
    IF execution_branch \in DOMAIN masks
    THEN /\ bm_result' = Raised("register_batch_oriented_mask", execution_branch,
                                ReRegisterError)
         /\ UNCHANGED <<masks, batch_compatibility, registered>>
    ELSE /\ batch_compatibility' =
                (execution_branch :> Truthy(mask)) @@ batch_compatibility
         /\ masks' = (execution_branch :> mask) @@ masks
         /\ registered' = (execution_branch :> [value |-> mask, batch |-> TRUE])
                                @@ registered
         /\ bm_result' = Returned("register_batch_oriented_mask", execution_branch,
                                  PyNone)

\* Variant: no check for an earlier registration, the mask is overwritten.
register_batch_oriented_mask_overwrites(execution_branch, mask) ==
    /\ batch_compatibility' = (execution_branch :> TRUE) @@ batch_compatibility
    /\ masks' = (execution_branch :> mask) @@ masks
    /\ registered' = (execution_branch :> [value |-> mask, batch |-> TRUE])
                           @@ registered
    /\ bm_result' = Returned("register_batch_oriented_mask", execution_branch,
                             PyNone)

register_batch_oriented_mask(execution_branch, mask) ==
    IF execution_branch \in DOMAIN masks
    THEN /\ bm_result' = Raised("register_batch_oriented_mask", execution_branch,
                                ReRegisterError)
         /\ UNCHANGED <<masks, batch_compatibility, registered>>
    ELSE /\ batch_compatibility' = (execution_branch :> TRUE) @@ batch_compatibility
         /\ masks' = (execution_branch :> mask) @@ masks
         /\ registered' = (execution_branch :> [value |-> mask, batch |-> TRUE])
                                @@ registered
         /\ bm_result' = Returned("register_batch_oriented_mask", execution_branch,
                                  PyNone)

\* Variant: the earlier registration is tested by the truth value of the
\* stored mask instead of the presence of the key.
register_non_batch_mask_truthy(execution_branch, mask) ==
    IF execution_branch \in DOMAIN masks /\ Truthy(masks[execution_branch])
    THEN /\ bm_result' = Raised("register_non_batch_mask", execution_branch,
                                ReRegisterError)
         /\ UNCHANGED <<masks, batch_compatibility, registered>>
    ELSE /\ batch_compatibility' = (execution_branch :> FALSE) @@ batch_compatibility
         /\ masks' = (execution_branch :> mask) @@ masks
         /\ registered' = (execution_branch :> [value |-> mask, batch |-> FALSE])
                                @@ registered
         /\ bm_result' = Returned("register_non_batch_mask", execution_branch,
                                  PyNone)

register_non_batch_mask(execution_branch, mask) ==
    IF execution_branch \in DOMAIN masks
    THEN /\ bm_result' = Raised("register_non_batch_mask", execution_branch,
                                ReRegisterError)
         /\ UNCHANGED <<masks, batch_compatibility, registered>>
    ELSE /\ batch_compatibility' = (execution_branch :> FALSE) @@ batch_compatibility
         /\ masks' = (execution_branch :> mask) @@ masks
         /\ registered' = (execution_branch :> [value |-> mask, batch |-> FALSE])
                                @@ registered
         /\ bm_result' = Returned("register_non_batch_mask", execution_branch,
                                  PyNone)

\* Variant: the value is read from the orientation map.
get_mask_from_compatibility(execution_branch) ==
    /\ bm_result' = IF execution_branch \notin DOMAIN masks
                    THEN Raised("get_mask", execution_branch, GetMaskError)
                    ELSE Returned("get_mask", execution_branch,
                                  PyBool(batch_compatibility[execution_branch]))
    /\ UNCHANGED <<masks, batch_compatibility, registered>>

get_mask(execution_branch) ==
    /\ bm_result' = IF execution_branch \notin DOMAIN masks
                    THEN Raised("get_mask", execution_branch, GetMaskError)
                    ELSE Returned("get_mask", execution_branch,
                                  masks[execution_branch])
    /\ UNCHANGED <<masks, batch_compatibility, registered>>

\* Variant: an unregistered branch is reported as not batch oriented.
is_execution_branch_batch_oriented_default(execution_branch) ==
    /\ bm_result' = IF execution_branch \notin DOMAIN batch_compatibility
                    THEN Returned("is_execution_branch_batch_oriented",
                                  execution_branch, PyBool(FALSE))
                    ELSE Returned("is_execution_branch_batch_oriented",
                                  execution_branch,
                                  PyBool(batch_compatibility[execution_branch]))
    /\ UNCHANGED <<masks, batch_compatibility, registered>>

is_execution_branch_batch_oriented(execution_branch) ==
    /\ bm_result' = IF execution_branch \notin DOMAIN batch_compatibility
                    THEN Raised("is_execution_branch_batch_oriented",
                                execution_branch, GetInfoError)
                    ELSE Returned("is_execution_branch_batch_oriented",
                                  execution_branch,
                                  PyBool(batch_compatibility[execution_branch]))
    /\ UNCHANGED <<masks, batch_compatibility, registered>>

\* Variant: the probe is the truth value of the stored mask.
is_execution_branch_registered_truthy(execution_branch) ==
    /\ bm_result' = Returned("is_execution_branch_registered", execution_branch,
                             PyBool(/\ execution_branch \in DOMAIN masks
                                    /\ Truthy(masks[execution_branch])))
    /\ UNCHANGED <<masks, batch_compatibility, registered>>

is_execution_branch_registered(execution_branch) ==
    /\ bm_result' = Returned("is_execution_branch_registered", execution_branch,
                             PyBool(execution_branch \in DOMAIN masks))
    /\ UNCHANGED <<masks, batch_compatibility, registered>>

----------------------------------------------------------------------------
NoQuery == [step |-> 0, branch |-> 0]

Init ==
    /\ BranchingManagerInit
    /\ running = {}
    /\ exec_query = NoQuery
    /\ caller_graph \in Graphs
    /\ constructed_graph = caller_graph
    /\ execution_graph = caller_graph
    /\ discarded_steps = {}
    /\ execution_order = None
    /\ execution_pointer = 0
    /\ steps_to_discard = {}
    /\ history = <<>>

\* Variant: the argument is not merged into the discard set.
get_steps_to_execute_next_no_merge(to_discard) ==
    LET order == IF execution_order.isNone
                 THEN establish_execution_order(execution_graph)
                 ELSE execution_order.val
        ptr == IF execution_order.isNone THEN 0 ELSE execution_pointer
        out == advance_pointer(order, ptr, discarded_steps)
    IN /\ Len(history) < MaxCalls
       /\ execution_order' = Some(order)
       /\ discarded_steps' = discarded_steps
       /\ execution_pointer' = out.ptr
       /\ steps_to_discard' = to_discard
       /\ history' = Append(history, [ret |-> out.ret, ptr |-> out.ptr])
       /\ UNCHANGED execution_graph

\* Variant: the argument replaces the discard set.
get_steps_to_execute_next_replace(to_discard) ==
    LET order == IF execution_order.isNone
                 THEN establish_execution_order(execution_graph)
                 ELSE execution_order.val
        ptr == IF execution_order.isNone THEN 0 ELSE execution_pointer
        out == advance_pointer(order, ptr, to_discard)
    IN /\ Len(history) < MaxCalls
       /\ execution_order' = Some(order)
       /\ discarded_steps' = to_discard
       /\ execution_pointer' = out.ptr
       /\ steps_to_discard' = to_discard
       /\ history' = Append(history, [ret |-> out.ret, ptr |-> out.ptr])
       /\ UNCHANGED execution_graph

\* Variant: the pointer is initialised to the second layer.
get_steps_to_execute_next_from_one(to_discard) ==
    LET order == IF execution_order.isNone
                 THEN establish_execution_order(execution_graph)
                 ELSE execution_order.val
        ptr == IF execution_order.isNone THEN 1 ELSE execution_pointer
        discarded == discarded_steps \cup to_discard
        out == advance_pointer(order, ptr, discarded)
    IN /\ Len(history) < MaxCalls
       /\ execution_order' = Some(order)
       /\ discarded_steps' = discarded
       /\ execution_pointer' = out.ptr
       /\ steps_to_discard' = to_discard
       /\ history' = Append(history, [ret |-> out.ret, ptr |-> out.ptr])
       /\ UNCHANGED execution_graph

\* Variant: a discard set with a name that is in no layer is rejected, the
\* call yields nothing and moves nothing.
get_steps_to_execute_next_rejects_unknown(to_discard) ==
    LET order == IF execution_order.isNone
                 THEN establish_execution_order(execution_graph)
                 ELSE execution_order.val
        ptr == IF execution_order.isNone THEN 0 ELSE execution_pointer
        known == UNION {{order[i][j] : j \in 1..Len(order[i])} : i \in 1..Len(order)}
        discarded == discarded_steps \cup to_discard
        out == IF to_discard \subseteq known
               THEN advance_pointer(order, ptr, discarded)
               ELSE [ptr |-> ptr, ret |-> None]
    IN /\ Len(history) < MaxCalls
       /\ execution_order' = Some(order)
       /\ discarded_steps' = discarded
       /\ execution_pointer' = out.ptr
       /\ steps_to_discard' = to_discard
       /\ history' = Append(history, [ret |-> out.ret, ptr |-> out.ptr])
       /\ UNCHANGED execution_graph

\* Variant: the Steps that directly follow a discarded step are discarded
\* with it.
get_steps_to_execute_next_cascade(to_discard) ==
    LET order == IF execution_order.isNone
                 THEN establish_execution_order(execution_graph)
                 ELSE execution_order.val
        ptr == IF execution_order.isNone THEN 0 ELSE execution_pointer
        named == discarded_steps \cup to_discard
        discarded == named \cup UNION {successors(execution_graph, n) : n \in named}
        out == advance_pointer(order, ptr, discarded)
    IN /\ Len(history) < MaxCalls
       /\ execution_order' = Some(order)
       /\ discarded_steps' = discarded
       /\ execution_pointer' = out.ptr
       /\ steps_to_discard' = to_discard
       /\ history' = Append(history, [ret |-> out.ret, ptr |-> out.ptr])
       /\ UNCHANGED execution_graph

\* Variant: a discard set that names a step of a layer already consumed is
\* rejected, the call yields nothing and moves nothing.
get_steps_to_execute_next_rejects_late(to_discard) ==
    LET order == IF execution_order.isNone
                 THEN establish_execution_order(execution_graph)
                 ELSE execution_order.val
        ptr == IF execution_order.isNone THEN 0 ELSE execution_pointer
        consumed == UNION {{order[i][j] : j \in 1..Len(order[i])} : i \in 1..ptr}
        discarded == discarded_steps \cup to_discard
        out == IF to_discard \cap consumed = {}
               THEN advance_pointer(order, ptr, discarded)
               ELSE [ptr |-> ptr, ret |-> None]
    IN /\ Len(history) < MaxCalls
       /\ execution_order' = Some(order)
       /\ discarded_steps' = discarded
       /\ execution_pointer' = out.ptr
       /\ steps_to_discard' = to_discard
       /\ history' = Append(history, [ret |-> out.ret, ptr |-> out.ptr])
       /\ UNCHANGED execution_graph

\* Variant: a call made while steps of an earlier wave are still running is
\* detected, it yields nothing and moves nothing.
get_steps_to_execute_next_waits(to_discard) ==
    LET order == IF execution_order.isNone
                 THEN establish_execution_order(execution_graph)
                 ELSE execution_order.val
        ptr == IF execution_order.isNone THEN 0 ELSE execution_pointer
        discarded == discarded_steps \cup to_discard
        out == IF running = {}
               THEN advance_pointer(order, ptr, discarded)
               ELSE [ptr |-> ptr, ret |-> None]
    IN /\ Len(history) < MaxCalls
       /\ execution_order' = Some(order)
       /\ discarded_steps' = discarded
       /\ execution_pointer' = out.ptr
       /\ steps_to_discard' = to_discard
       /\ history' = Append(history, [ret |-> out.ret, ptr |-> out.ptr])
       /\ UNCHANGED execution_graph

get_steps_to_execute_next(to_discard) ==
    LET order == IF execution_order.isNone
                 THEN establish_execution_order(execution_graph)
                 ELSE execution_order.val
        ptr == IF execution_order.isNone THEN 0 ELSE execution_pointer
        discarded == discarded_steps \cup to_discard
        out == advance_pointer(order, ptr, discarded)
    IN /\ Len(history) < MaxCalls
       /\ execution_order' = Some(order)
       /\ discarded_steps' = discarded
       /\ execution_pointer' = out.ptr
       /\ steps_to_discard' = to_discard
       /\ history' = Append(history, [ret |-> out.ret, ptr |-> out.ptr])
       /\ UNCHANGED execution_graph

GetStepsToExecuteNext ==
    /\ \E to_discard \in SUBSET Nodes : get_steps_to_execute_next(to_discard)
    /\ UNCHANGED <<managerVars, executorVars>>
    /\ UNCHANGED callerVars

Next == GetStepsToExecuteNext

Spec == Init /\ [][Next]_vars

----------------------------------------------------------------------------
\* A BranchingManager on its own: any sequence of its operations on a
\* manager made by init(), the coordinator left untouched.
NoGraph == [kind |-> [n \in Nodes |-> DATA_NODE], edges |-> {}]

InitBM == Init /\ execution_graph = NoGraph

RegisterBatchOrientedMask ==
    /\ \E b \in Branches : \E S \in SUBSET Indices :
            register_batch_oriented_mask(b, PySet(S))
    /\ UNCHANGED <<coordinatorVars, executorVars>>
    /\ UNCHANGED callerVars

RegisterNonBatchMask ==
    /\ \E b \in Branches : \E v \in BOOLEAN : register_non_batch_mask(b, PyBool(v))
    /\ UNCHANGED <<coordinatorVars, executorVars>>
    /\ UNCHANGED callerVars

GetMask ==
    /\ \E b \in Branches : get_mask(b)
    /\ UNCHANGED <<coordinatorVars, executorVars>>
    /\ UNCHANGED callerVars

IsExecutionBranchBatchOriented ==
    /\ \E b \in Branches : is_execution_branch_batch_oriented(b)
    /\ UNCHANGED <<coordinatorVars, executorVars>>
    /\ UNCHANGED callerVars

IsExecutionBranchRegistered ==
    /\ \E b \in Branches : is_execution_branch_registered(b)
    /\ UNCHANGED <<coordinatorVars, executorVars>>
    /\ UNCHANGED callerVars

NextBM ==
    \/ RegisterBatchOrientedMask
    \/ RegisterNonBatchMask
    \/ GetMask
    \/ IsExecutionBranchBatchOriented
    \/ IsExecutionBranchRegistered

SpecBM == InitBM /\ [][NextBM]_vars

----------------------------------------------------------------------------
\* A BranchingManager made by the constructor with initial masks: a dict
\* from some branch names to bools and sets, init() being the empty dict.
InitialMaskValues == {PyBool(FALSE), PyBool(TRUE), PySet({}), PySet(Indices)}

InitialMasks == UNION {[S -> InitialMaskValues] : S \in SUBSET Branches}

\* Variant: the orientation of an initial mask is its truth value.
BranchingManagerConstructor_truthy(initial_masks) ==
    /\ masks = initial_masks
    /\ batch_compatibility =
            [branch_name \in DOMAIN initial_masks |-> Truthy(initial_masks[branch_name])]
    /\ registered = <<>>
    /\ bm_result = NoOperation

\* BranchingManager.__init__(masks): the dict is kept and a mask that is not
\* a bool is batch oriented.
BranchingManagerConstructor(initial_masks) ==
    /\ masks = initial_masks
    /\ batch_compatibility =
            [branch_name \in DOMAIN initial_masks |->
                    initial_masks[branch_name].kind # "bool"]
    /\ registered = <<>>
    /\ bm_result = NoOperation

InitBMCtor ==
    /\ \E initial_masks \in InitialMasks : BranchingManagerConstructor(initial_masks)
    /\ running = {}
    /\ exec_query = NoQuery
    /\ caller_graph = NoGraph
    /\ constructed_graph = NoGraph
    /\ execution_graph = NoGraph
    /\ discarded_steps = {}
    /\ execution_order = None
    /\ execution_pointer = 0
    /\ steps_to_discard = {}
    /\ history = <<>>

SpecBMCtor == InitBMCtor /\ [][NextBM]_vars

----------------------------------------------------------------------------
\* The executor that drives one run: it requests a wave, executes every step
\* of the wave to completion, in any interleaving, and only then requests
\* the next wave.  A step may query the masks of the branches produced by
\* the Steps it depends on, and on completion registers the mask of its own
\* branch, named after the step.  An exception of the manager aborts the run.
RECURSIVE DependsOn(_, _, _)
DependsOn(g, a, b) ==
    \/ <<a, b>> \in g.edges
    \/ \E m \in Nodes : <<a, m>> \in g.edges /\ DependsOn(g, m, b)

\* The Steps that step s depends on, directly or through other nodes.
StepDependencies(g, s) ==
    {a \in get_nodes_of_specific_category(g, STEP_NODE) : DependsOn(g, a, s)}

\* The branch decision of a step: per element for odd steps, whole-branch
\* for even ones.
ProducesBatchMask(s) == s % 2 = 1

MaskOf(s) == IF ProducesBatchMask(s) THEN PySet({<<0>>, <<s>>}) ELSE PyBool(FALSE)

NotAborted == bm_result.raised = NoError

RequestNextWave ==
    /\ NotAborted
    /\ running = {}
    /\ \E to_discard \in SUBSET Nodes : get_steps_to_execute_next(to_discard)
    /\ running' = LET ret == history'[Len(history')].ret
                  IN IF ret.isNone THEN {} ELSE {ret.val[i] : i \in 1..Len(ret.val)}
    /\ exec_query' = NoQuery
    /\ UNCHANGED managerVars
    /\ UNCHANGED callerVars

QueryMask ==
    /\ NotAborted
    /\ \E s \in running : \E p \in StepDependencies(execution_graph, s) :
            /\ get_mask(p)
            /\ exec_query' = [step |-> s, branch |-> p]
    /\ UNCHANGED <<coordinatorVars, running>>
    /\ UNCHANGED callerVars

QueryOrientation ==
    /\ NotAborted
    /\ \E s \in running : \E p \in StepDependencies(execution_graph, s) :
            /\ is_execution_branch_batch_oriented(p)
            /\ exec_query' = [step |-> s, branch |-> p]
    /\ UNCHANGED <<coordinatorVars, running>>
    /\ UNCHANGED callerVars

CompleteStep ==
    /\ NotAborted
    /\ \E s \in running :
            /\ IF ProducesBatchMask(s)
               THEN register_batch_oriented_mask(s, MaskOf(s))
               ELSE register_non_batch_mask(s, MaskOf(s))
            /\ running' = running \ {s}
            /\ exec_query' = [step |-> s, branch |-> s]
    /\ UNCHANGED coordinatorVars
    /\ UNCHANGED callerVars

NextExec ==
    \/ RequestNextWave
    \/ QueryMask
    \/ QueryOrientation
    \/ CompleteStep

SpecExec == Init /\ [][NextExec]_vars

----------------------------------------------------------------------------
\* The executor that breaks the protocol: it may request the next wave while
\* steps of the waves it was given are still running.
\* The discard sets this executor reports: nothing, or one node that
\* directly follows a step it was given (a branch that step switched off).
FlowControlDiscards ==
    LET given == UNION {IF history[i].ret.isNone THEN {}
                        ELSE {history[i].ret.val[j] : j \in 1..Len(history[i].ret.val)} :
                            i \in 1..Len(history)}
    IN {{}} \cup {{n} : n \in UNION {successors(execution_graph, g) : g \in given}}

RequestNextWaveEarly ==
    /\ NotAborted
    /\ \E to_discard \in FlowControlDiscards : get_steps_to_execute_next(to_discard)
    /\ running' = running \cup
                    LET ret == history'[Len(history')].ret
                    IN IF ret.isNone THEN {} ELSE {ret.val[i] : i \in 1..Len(ret.val)}
    /\ exec_query' = NoQuery
    /\ UNCHANGED managerVars
    /\ UNCHANGED callerVars

NextPremature ==
    \/ RequestNextWaveEarly
    \/ QueryMask
    \/ CompleteStep

SpecPremature == Init /\ [][NextPremature]_vars

----------------------------------------------------------------------------
\* The layering on its own: the first call of a coordinator, which
\* establishes the execution order of its graph.
FirstCall ==
    /\ execution_order.isNone
    /\ GetStepsToExecuteNext

NextLayering == FirstCall

SpecLayering == Init /\ [][NextLayering]_vars

----------------------------------------------------------------------------
\* A caller that keeps changing the graph it passed to init() while the
\* coordinator is in use.  A node that is not in the graph is an isolated
\* Data node of the model.
SetNodeKind(g, n, k) == [g EXCEPT !.kind[n] = k]

Mutations(g) ==
    {[g EXCEPT !.edges = @ \cup {e}] : e \in AllEdges \ g.edges}
    \cup {[g EXCEPT !.edges = @ \ {e}] : e \in g.edges}
    \cup {[kind |-> [g.kind EXCEPT ![n] = DATA_NODE],
           edges |-> {e \in g.edges : e[1] # n /\ e[2] # n}] :
                n \in {x \in Nodes : g.kind[x] = STEP_NODE}}
    \cup {SetNodeKind(g, n, STEP_NODE) :
                n \in {x \in Nodes : /\ g.kind[x] = DATA_NODE
                                     /\ predecessors(g, x) = {}
                                     /\ successors(g, x) = {}}}

Divergence(g, h) ==
    Cardinality((g.edges \ h.edges) \cup (h.edges \ g.edges))
        + Cardinality({n \in Nodes : g.kind[n] # h.kind[n]})

MutateCallerGraph ==
    /\ \E mutated \in Mutations(caller_graph) :
            /\ Divergence(mutated, constructed_graph) <= MaxMutations
            /\ caller_graph' = mutated
            /\ execution_graph' = execution_graph_copy(execution_graph, mutated)
    /\ UNCHANGED <<discarded_steps, execution_order, execution_pointer,
                   steps_to_discard, history, constructed_graph>>
    /\ UNCHANGED <<managerVars, executorVars>>

CallBetweenMutations ==
    /\ \E to_discard \in FlowControlDiscards : get_steps_to_execute_next(to_discard)
    /\ UNCHANGED <<managerVars, executorVars, callerVars>>

NextSnapshot ==
    \/ MutateCallerGraph
    \/ CallBetweenMutations

SpecSnapshot == Init /\ [][NextSnapshot]_vars

----------------------------------------------------------------------------
\* Vocabulary of the properties.
StepNodes == get_nodes_of_specific_category(execution_graph, STEP_NODE)

Elems(seq) == {seq[i] : i \in 1..Len(seq)}

Occurrences(seq, x) == Cardinality({i \in 1..Len(seq) : seq[i] = x})

OrderEstablished == ~execution_order.isNone

Layers == execution_order.val

\* The indices of the layers that hold node n.
LayersOf(n) == {i \in 1..Len(Layers) : n \in Elems(Layers[i])}

\* Every layer of a is strictly before every layer of b, and both are placed.
StrictlyBefore(a, b) ==
    /\ LayersOf(a) # {}
    /\ LayersOf(b) # {}
    /\ \A i \in LayersOf(a) : \A j \in LayersOf(b) : i < j

\* b is reachable from a by a path whose inner nodes are all in inner.
RECURSIVE Reachable(_, _, _, _)
Reachable(g, a, b, inner) ==
    \/ <<a, b>> \in g.edges
    \/ \E m \in inner : <<a, m>> \in g.edges /\ Reachable(g, m, b, inner)

IsCall == Len(history') = Len(history) + 1

LastCall == history[Len(history)]

TypeOK ==
    /\ execution_graph \in Graphs
    /\ discarded_steps \subseteq Nodes
    /\ execution_pointer \in 0..MaxNodes
    /\ Len(history) <= MaxCalls

----------------------------------------------------------------------------
\* C1: for every direct Step-to-Step edge a -> b of the execution graph, the
\* layering places a in a layer with a strictly smaller index than b's layer.
C1_DirectEdgeOrdered ==
    OrderEstablished =>
        \A e \in execution_graph.edges :
            (e[1] \in StepNodes /\ e[2] \in StepNodes) => StrictlyBefore(e[1], e[2])

C1_Witness ==
    /\ OrderEstablished
    /\ \E e \in execution_graph.edges :
            /\ e[1] \in StepNodes /\ e[2] \in StepNodes
            /\ StrictlyBefore(e[1], e[2])

\* C2 as stated: whenever Step b is reachable from Step a in the execution
\* graph, also through intervening Data nodes, a's layer is strictly before
\* b's layer.
C2_Original ==
    OrderEstablished =>
        \A a \in StepNodes : \A b \in StepNodes :
            Reachable(execution_graph, a, b, Nodes) => StrictlyBefore(a, b)

\* C2 amended: whenever Step b is reachable from Step a by a path of any
\* length whose nodes are all Steps, a's layer is strictly before b's layer.
C2_StepPathOrdered ==
    OrderEstablished =>
        \A a \in StepNodes : \A b \in StepNodes :
            Reachable(execution_graph, a, b, StepNodes) => StrictlyBefore(a, b)

\* A dependency path of two edges through a Step, with no direct edge.
C2_Witness ==
    /\ OrderEstablished
    /\ \E a \in StepNodes : \E m \in StepNodes : \E b \in StepNodes :
            /\ <<a, m>> \in execution_graph.edges
            /\ <<m, b>> \in execution_graph.edges
            /\ <<a, b>> \notin execution_graph.edges
            /\ StrictlyBefore(a, b)

\* C3: the layering is a partition of the Step nodes: every Step is in
\* exactly one layer exactly once, and neither a Data node nor the synthetic
\* source is in any layer.
C3_LayeringPartitionsSteps ==
    OrderEstablished =>
        /\ \A s \in StepNodes :
                /\ Cardinality(LayersOf(s)) = 1
                /\ \A i \in LayersOf(s) : Occurrences(Layers[i], s) = 1
        /\ \A i \in 1..Len(Layers) : Elems(Layers[i]) \subseteq StepNodes

C3_Witness ==
    /\ OrderEstablished
    /\ Len(Layers) >= 2
    /\ \E d \in Nodes \ StepNodes :
            \E e \in execution_graph.edges : e[1] = d \/ e[2] = d

----------------------------------------------------------------------------
\* The scenario graph of three Steps A = 1, B = 2, C = 3 with A -> C, B -> C.
ScenarioGraph ==
    /\ \A n \in 1..3 : execution_graph.kind[n] = STEP_NODE
    /\ {e \in execution_graph.edges : e[2] <= 3} = {<<1, 3>>, <<2, 3>>}
    /\ \A n \in Nodes : n > 3 => execution_graph.kind[n] = DATA_NODE

\* The steps returned by the i-th call (none for the sentinel).
Wave(i) == IF history[i].ret.isNone THEN {} ELSE Elems(history[i].ret.val)

\* The state of the call that a step is about to make or has just made.
PointerBefore == IF execution_order.isNone THEN 0 ELSE execution_pointer

\* The pending layers that hold a step outside the discard set d.
LiveLayers(order, ptr, d) ==
    {i \in (ptr + 1)..Len(order) : Elems(order[i]) \ d # {}}

SetMin(S) == CHOOSE x \in S : \A y \in S : x <= y

\* C4 as stated: no two steps of one returned wave are joined by a dependency
\* edge or by a dependency path of the execution graph.
C4_Original ==
    \A i \in 1..Len(history) : \A a \in Wave(i) : \A b \in Wave(i) :
        ~Reachable(execution_graph, a, b, Nodes)

\* C4 amended: no two steps of one returned wave are joined by a Step-to-Step
\* edge or by a dependency path whose nodes are all Steps.
C4_WaveStepIndependent ==
    \A i \in 1..Len(history) : \A a \in Wave(i) : \A b \in Wave(i) :
        ~Reachable(execution_graph, a, b, StepNodes)

\* A wave of two steps returned after an earlier call, in a graph with a
\* Step-to-Step edge.
C4_Witness ==
    /\ Len(history) >= 2
    /\ Cardinality(Wave(Len(history))) >= 2
    /\ discarded_steps # {}
    /\ \E e \in execution_graph.edges : e[1] \in StepNodes /\ e[2] \in StepNodes

\* C5: a call with discard set D merges D into the discard set and returns
\* exactly the non-discarded steps of the first pending layer that has one;
\* it returns the sentinel iff no pending layer has a non-discarded step.
\* With layering [[A,B],[C]] and A discarded in call 1, call 1 returns [B].
C5_ReturnsFirstLiveLayer ==
    [][IsCall =>
        LET d == discarded_steps \cup steps_to_discard'
            order == execution_order'.val
            live == LiveLayers(order, PointerBefore, d)
            ret == history'[Len(history')].ret
        IN /\ discarded_steps' = d
           /\ ret.isNone <=> live = {}
           /\ live # {} =>
                ret.val = SelectSeq(order[SetMin(live)], LAMBDA e : e \notin d)
           /\ (ScenarioGraph /\ history = <<>> /\ steps_to_discard' = {1}) =>
                ret = Some(<<2>>)]_vars

C5_Witness ==
    /\ ScenarioGraph
    /\ Len(history) = 1
    /\ steps_to_discard = {1}
    /\ LastCall.ret = Some(<<2>>)

\* C6: a pending layer whose steps are all discarded is skipped: no call
\* returns an empty list, and the call that meets such a layer returns the
\* next layer with a non-discarded step, or the sentinel if there is none,
\* however many fully discarded layers follow each other.
C6_DiscardedLayerSkipped ==
    [][IsCall =>
        LET order == execution_order'.val
            ptr == PointerBefore
            ret == history'[Len(history')].ret
            skipped == {i \in (ptr + 1)..Len(order) :
                            \A j \in (ptr + 1)..i :
                                Elems(order[j]) \subseteq discarded_steps'}
        IN /\ ret # Some(<<>>)
           /\ skipped # {} =>
                LET next == SetMax(skipped) + 1
                IN IF next > Len(order)
                   THEN ret.isNone
                   ELSE /\ ~ret.isNone
                        /\ execution_pointer' = next
                        /\ Elems(ret.val) = Elems(order[next]) \ discarded_steps']_vars

\* Two consecutive fully discarded layers skipped by one call that returns
\* the layer after them.
C6_Witness ==
    /\ Len(history) >= 1
    /\ ~LastCall.ret.isNone
    /\ LastCall.ptr >= 3 + (IF Len(history) = 1 THEN 0
                                              ELSE history[Len(history) - 1].ptr)

\* C7: the discard set only grows, it holds every name passed to a call,
\* and no call returns a step of the discard set, so a step passed in some
\* call is returned neither by that call nor by a later one.
C7_DiscardMonotonic ==
    [][IsCall =>
        /\ discarded_steps \subseteq discarded_steps'
        /\ steps_to_discard' \subseteq discarded_steps'
        /\ Wave(Len(history))' \cap discarded_steps' = {}]_vars

\* A call with an empty discard set meets a step discarded by an earlier
\* call and returns the rest of its layer.
C7_Witness ==
    /\ Len(history) >= 2
    /\ steps_to_discard = {}
    /\ ~LastCall.ret.isNone
    /\ (Elems(Layers[LastCall.ptr]) \cap discarded_steps) # {}

\* C8: the execution pointer never decreases, the layer indices of the
\* waves returned by successive calls strictly increase, and no step is
\* returned by more than one call.
C8_LayersNeverRevisited ==
    [][IsCall =>
        /\ execution_pointer' >= PointerBefore
        /\ execution_pointer' = history'[Len(history')].ptr
        /\ ~history'[Len(history')].ret.isNone =>
             /\ execution_pointer' \in 1..Len(execution_order'.val)
             /\ execution_pointer' > PointerBefore
             /\ Wave(Len(history))' \subseteq Elems(execution_order'.val[execution_pointer'])
             /\ \A i \in 1..Len(history) :
                    /\ ~history[i].ret.isNone => history[i].ptr < execution_pointer'
                    /\ Wave(i) \cap Wave(Len(history))' = {}]_vars

C8_Witness ==
    /\ Len(history) >= 3
    /\ \A i \in 1..3 : ~history[i].ret.isNone
    /\ history[1].ptr < history[2].ptr /\ history[2].ptr < history[3].ptr

\* C9: once a call has returned the sentinel, every later call returns the
\* sentinel too and leaves the pointer past the last layer, whatever is
\* passed; with n layers the sentinel comes no later than call n + 1.
C9_SentinelIsFinal ==
    /\ \A i \in 1..Len(history) : \A j \in 1..Len(history) :
            (i < j /\ history[i].ret.isNone) => history[j].ret.isNone
    /\ \A i \in 1..Len(history) :
            history[i].ret.isNone => history[i].ptr = Len(Layers)
    /\ \A i \in 1..Len(history) :
            i >= Len(Layers) + 1 => history[i].ret.isNone

\* The sentinel returned twice, the second time with a new discard set,
\* after at least one wave.
C9_Witness ==
    /\ Len(history) >= 3
    /\ ~history[1].ret.isNone
    /\ history[Len(history) - 1].ret.isNone
    /\ LastCall.ret.isNone
    /\ steps_to_discard # {}

\* C10: every step that is outside the discard set when a call reaches its
\* layer is returned by that call and by no other, and the sentinel comes
\* only when every layer was reached; with empty discard sets call k
\* returns the whole k-th layer and the call after the last layer the
\* sentinel (A -> C, B -> C: [A,B], then [C], then the sentinel).
C10_EveryLiveStepReturnedOnce ==
    [][IsCall =>
        LET order == execution_order'.val
            ret == history'[Len(history')].ret
            k == Len(history')
        IN /\ \A i \in (PointerBefore + 1)..execution_pointer' :
                \A s \in Elems(order[i]) \ discarded_steps' :
                    /\ ~ret.isNone
                    /\ Occurrences(ret.val, s) = 1
                    /\ \A j \in 1..Len(history) : s \notin Wave(j)
           /\ ret.isNone => execution_pointer' = Len(order)
           /\ discarded_steps' = {} =>
                ret = IF k <= Len(order) THEN Some(order[k]) ELSE None
           /\ (ScenarioGraph /\ discarded_steps' = {}) =>
                ret = CASE k = 1 -> Some(<<1, 2>>)
                        [] k = 2 -> Some(<<3>>)
                        [] OTHER -> None]_vars

C10_Witness ==
    /\ ScenarioGraph
    /\ discarded_steps = {}
    /\ Len(history) = 3
    /\ history[1].ret = Some(<<1, 2>>)
    /\ history[2].ret = Some(<<3>>)
    /\ history[3].ret = None

----------------------------------------------------------------------------
\* The number of pending layers, from ptr on, that a call with discard set
\* d passes over before it meets a layer with a non-discarded step.
RECURSIVE SkippedLayers(_, _, _)
SkippedLayers(order, ptr, d) ==
    IF ptr < Len(order) /\ Elems(order[ptr + 1]) \subseteq d
    THEN 1 + SkippedLayers(order, ptr + 1, d)
    ELSE 0

\* C11 as stated: every call advances the layer pointer by exactly one layer.
C11_Original ==
    [][IsCall => execution_pointer' = PointerBefore + 1]_vars

\* C11 amended: a call that returns a wave advances the pointer by one plus
\* the number of fully discarded layers it skips, so by exactly one when the
\* next pending layer has a non-discarded step; a call that returns the
\* sentinel leaves the pointer at the number of layers.
C11_PointerAdvance ==
    [][IsCall =>
        LET order == execution_order'.val
            ret == history'[Len(history')].ret
            skipped == SkippedLayers(order, PointerBefore, discarded_steps')
        IN IF ret.isNone
           THEN execution_pointer' = Len(order)
           ELSE execution_pointer' = PointerBefore + 1 + skipped]_vars

\* A call that advanced by one layer followed by a call that skipped one
\* layer and advanced by two.
C11_Witness ==
    /\ Len(history) = 2
    /\ ~history[1].ret.isNone /\ history[1].ptr = 1
    /\ ~history[2].ret.isNone /\ history[2].ptr = 3

\* The names that occur in some layer.
KnownNames(order) == UNION {Elems(order[i]) : i \in 1..Len(order)}

\* C12: names of a discard set that occur in no layer are inert: every call
\* returns, and moves the pointer to, what the discard set restricted to the
\* names of the layers gives, so runs whose discard sets differ only by
\* unknown names return the same waves and sentinel.
C12_UnknownNamesInert ==
    [][IsCall =>
        LET order == execution_order'.val
            d == (discarded_steps \cup steps_to_discard') \cap KnownNames(order)
            live == LiveLayers(order, PointerBefore, d)
            ret == history'[Len(history')].ret
        IN /\ ret.isNone <=> live = {}
           /\ live = {} => execution_pointer' = Len(order)
           /\ live # {} =>
                /\ execution_pointer' = SetMin(live)
                /\ ret.val = SelectSeq(order[SetMin(live)], LAMBDA e : e \notin d)]_vars

\* A call whose discard set names a node that is in no layer returns a wave,
\* after an earlier call that was passed an unknown name too.
C12_Witness ==
    /\ Len(history) >= 2
    /\ ~LastCall.ret.isNone
    /\ steps_to_discard \ KnownNames(Layers) # {}
    /\ steps_to_discard \cap KnownNames(Layers) # {}

----------------------------------------------------------------------------
\* The error kinds of the specification as the messages of the code.
DuplicateRegistration == {ReRegisterError}

UnknownBranch == {GetMaskError, GetInfoError}

RegisterOps == {"register_batch_oriented_mask", "register_non_batch_mask"}

\* C13: after a successful register call for branch b, get_mask(b) returns
\* exactly the registered value (a set, also the empty one, or a bool, also
\* false), whatever operations came in between; registering {(0,), (2,)}
\* makes get_mask yield {(0,), (2,)}.
C13_GetMaskReturnsRegistered ==
    /\ \A b \in DOMAIN registered :
            b \in DOMAIN masks /\ masks[b] = registered[b].value
    /\ (bm_result.op = "get_mask" /\ bm_result.branch \in DOMAIN registered) =>
            bm_result = Returned("get_mask", bm_result.branch,
                                 registered[bm_result.branch].value)

C13_Witness ==
    /\ bm_result = Returned("get_mask", 1, PySet({<<0>>, <<2>>}))
    /\ 2 \in DOMAIN registered
    /\ registered[2].value = PyBool(FALSE)

\* C14: a register call of either kind for a branch that is already
\* registered fails with DuplicateRegistration and leaves every stored mask
\* and orientation unchanged, also when the first value was false or empty.
C14_ReRegistrationFails ==
    [][(bm_result'.op \in RegisterOps /\ bm_result'.branch \in DOMAIN registered) =>
        /\ bm_result'.raised \in DuplicateRegistration
        /\ masks' = masks
        /\ batch_compatibility' = batch_compatibility]_vars

\* A batch-oriented registration refused for a branch that holds Scalar(false).
C14_Witness ==
    /\ bm_result = Raised("register_batch_oriented_mask", 1, ReRegisterError)
    /\ registered[1] = [value |-> PyBool(FALSE), batch |-> FALSE]
    /\ masks[1] = PyBool(FALSE)

\* C15: get_mask and is_execution_branch_batch_oriented for a branch that
\* was never registered fail with UnknownBranch, return no value and leave
\* the manager unchanged.
C15_UnknownBranchFails ==
    [][(/\ bm_result'.op \in {"get_mask", "is_execution_branch_batch_oriented"}
        /\ bm_result'.branch \notin DOMAIN registered) =>
        /\ bm_result'.raised \in UnknownBranch
        /\ bm_result'.value = PyNone
        /\ masks' = masks
        /\ batch_compatibility' = batch_compatibility]_vars

C15_Witness ==
    /\ bm_result.op = "is_execution_branch_batch_oriented"
    /\ bm_result.raised = GetInfoError
    /\ bm_result.branch \notin DOMAIN registered
    /\ DOMAIN registered # {}

\* C16: for a registered branch, is_execution_branch_batch_oriented returns
\* true iff the branch was registered by register_batch_oriented_mask (also
\* with an empty set) and false iff by register_non_batch_mask.
C16_OrientationFollowsRegistration ==
    (/\ bm_result.op = "is_execution_branch_batch_oriented"
     /\ bm_result.branch \in DOMAIN registered) =>
        /\ bm_result.raised = NoError
        /\ bm_result.value = PyBool(registered[bm_result.branch].batch)
        /\ registered[bm_result.branch].batch <=>
                masks[bm_result.branch].kind = "set"

C16_Witness ==
    /\ bm_result = Returned("is_execution_branch_batch_oriented", 1, PyBool(TRUE))
    /\ registered[1] = [value |-> PySet({}), batch |-> TRUE]

\* C17: is_execution_branch_registered never fails, changes no state and
\* returns true exactly when a register call for the branch succeeded
\* before, also when the mask is false or the empty set.
C17_RegisteredProbe ==
    [][bm_result'.op = "is_execution_branch_registered" =>
        /\ bm_result'.raised = NoError
        /\ bm_result'.value = PyBool(bm_result'.branch \in DOMAIN registered)
        /\ masks' = masks
        /\ batch_compatibility' = batch_compatibility
        /\ registered' = registered]_vars

C17_Witness ==
    /\ bm_result = Returned("is_execution_branch_registered", 1, PyBool(TRUE))
    /\ registered[1].value \in {PyBool(FALSE), PySet({})}

\* C18: masks are append-only: over any operation, successful or failing,
\* no registered branch disappears and the mask and the orientation stored
\* for a registered branch do not change.
C18_MasksAppendOnly ==
    [][\A b \in DOMAIN masks :
        /\ b \in DOMAIN masks' /\ masks'[b] = masks[b]
        /\ b \in DOMAIN batch_compatibility'
        /\ batch_compatibility'[b] = batch_compatibility[b]]_vars

\* Two registered branches and then a refused registration.
C18_Witness ==
    /\ Cardinality(DOMAIN masks) >= 2
    /\ bm_result.op = "register_batch_oriented_mask"
    /\ bm_result.raised = ReRegisterError

----------------------------------------------------------------------------
QueryOps == {"get_mask", "is_execution_branch_batch_oriented"}

\* The step-dependencies of s that are linked to s by Steps only and are in
\* no discard set passed so far.
SafeDependencies(s) ==
    {a \in StepNodes : Reachable(execution_graph, a, s, StepNodes)} \ discarded_steps

\* The steps returned so far and completed.
CompletedSteps == UNION {Wave(i) : i \in 1..Len(history)} \ running

\* C19 as stated: with every wave run to completion before the next request,
\* the masks of the branches of all step-dependencies of a returned consumer
\* are registered when it is returned, and no query of the executor fails
\* with UnknownBranch.
C19_Original ==
    /\ \A s \in running : StepDependencies(execution_graph, s) \subseteq DOMAIN masks
    /\ bm_result.raised \notin UnknownBranch

\* C19 amended: with every wave run to completion before the next request,
\* when a consumer is returned the masks of the branches of those of its
\* step-dependencies that are linked to it by Steps only and were never put
\* in a discard set are registered, and a query of such a branch never fails
\* with UnknownBranch.
C19_RegistrationBeforeQuery ==
    /\ \A s \in running : SafeDependencies(s) \subseteq DOMAIN masks
    /\ (/\ bm_result.op \in QueryOps
        /\ exec_query.step \in StepNodes
        /\ exec_query.branch \in SafeDependencies(exec_query.step)) =>
            bm_result.raised \notin UnknownBranch

\* A running consumer has queried the mask of a producer two layers back,
\* in a run that has discarded names.
C19_Witness ==
    /\ bm_result.op = "get_mask"
    /\ bm_result.raised = NoError
    /\ exec_query.step \in running
    /\ exec_query.branch \in SafeDependencies(exec_query.step)
    /\ <<exec_query.branch, exec_query.step>> \notin execution_graph.edges
    /\ discarded_steps # {}

\* C20 as stated: in every interleaving of the steps of a wave every
\* registration and every query of a step-dependency's branch succeeds, and
\* the manager holds the masks of the completed steps whatever the order.
C20_Original ==
    /\ bm_result.raised = NoError
    /\ masks = [s \in CompletedSteps |-> MaskOf(s)]

\* C20 amended: in every interleaving of the steps of a wave every
\* registration succeeds, every query of the branch of a step-dependency
\* that is linked by Steps only and was never discarded succeeds, and the
\* manager holds exactly the masks and orientations of the completed steps,
\* whatever the order in which they ran.
C20_WaveInterleavingSafe ==
    /\ bm_result.op \in RegisterOps => bm_result.raised = NoError
    /\ (/\ bm_result.op \in QueryOps
        /\ exec_query.step \in StepNodes
        /\ exec_query.branch \in SafeDependencies(exec_query.step)) =>
            /\ bm_result.raised = NoError
            /\ bm_result.value =
                    IF bm_result.op = "get_mask"
                    THEN MaskOf(exec_query.branch)
                    ELSE PyBool(ProducesBatchMask(exec_query.branch))
    /\ masks = [s \in CompletedSteps |-> MaskOf(s)]
    /\ batch_compatibility = [s \in CompletedSteps |-> ProducesBatchMask(s)]

\* A wave of two steps, the second wave of the run, has completed after one
\* of its steps queried an earlier producer.
C20_Witness ==
    /\ Len(history) = 2
    /\ Cardinality(Wave(2)) = 2
    /\ running = {}
    /\ Wave(2) \subseteq DOMAIN masks
    /\ bm_result.raised = NoError
    /\ Wave(1) \cap DOMAIN masks # {}

----------------------------------------------------------------------------
\* The number of Steps on the longest chain of direct Step-to-Step edges of
\* the execution graph that ends in step s.
RECURSIVE LongestStepChain(_, _)
LongestStepChain(g, s) ==
    LET stepPredecessors ==
            predecessors(g, s) \cap get_nodes_of_specific_category(g, STEP_NODE)
    IN IF stepPredecessors = {}
       THEN 1
       ELSE 1 + SetMax({LongestStepChain(g, q) : q \in stepPredecessors})

\* C22: longest-path rule: the synthetic source is at distance 0, a Step
\* without Step predecessor at distance 1, any other Step at 1 + the maximum
\* distance of its Step predecessors, which is the length of the longest
\* step-graph path from the source; the layer of a Step is its distance.
C22_LongestPathRule ==
    OrderEstablished =>
        LET flow == construct_steps_flow_graph(execution_graph, super_start_node)
            distance == assign_max_distances_from_start(flow, super_start_node)
        IN /\ distance[super_start_node] = 0
           /\ \A b \in StepNodes :
                /\ distance[b] = LongestStepChain(execution_graph, b)
                /\ LayersOf(b) = {distance[b]}

\* A Step reached by a chain of two edges and by a direct edge is placed by
\* the longer one.
C22_Witness ==
    /\ OrderEstablished
    /\ \E a \in StepNodes : \E m \in StepNodes : \E b \in StepNodes :
            /\ {<<a, m>>, <<m, b>>, <<a, b>>} \subseteq execution_graph.edges
            /\ LayersOf(a) = {1}
            /\ LayersOf(b) = {3}

\* The step-graph in which only the Steps without Step predecessor get an
\* edge from the synthetic source.
StepsFlowGraphSourceForRootsOnly(g, start) ==
    LET step_nodes == get_nodes_of_specific_category(g, STEP_NODE)
        edges == {e \in g.edges : e[1] \in step_nodes /\ e[2] \in step_nodes}
                 \cup {<<start, r>> : r \in {x \in step_nodes :
                                    predecessors(g, x) \cap step_nodes = {}}}
    IN [nodes |-> {start} \cup step_nodes, edges |-> edges]

\* C23: the synthetic-source edge of a Step that has a non-Step predecessor
\* and a Step predecessor is a no-op: the layering equals the layering of
\* the step-graph whose source edges go to the Steps without Step
\* predecessor only.
C23_SourceEdgeIsNoOp ==
    OrderEstablished =>
        LET flow == StepsFlowGraphSourceForRootsOnly(execution_graph, super_start_node)
            distance == assign_max_distances_from_start(flow, super_start_node)
        IN Layers = group_nodes_by_sorted_key_value(flow, {super_start_node}, distance)

\* A Step with a Data predecessor and a Step predecessor, placed after the
\* Step predecessor.
C23_Witness ==
    /\ OrderEstablished
    /\ \E b \in StepNodes : \E a \in StepNodes : \E d \in Nodes \ StepNodes :
            /\ {<<a, b>>, <<d, b>>} \subseteq execution_graph.edges
            /\ LayersOf(a) = {1}
            /\ LayersOf(b) = {2}

----------------------------------------------------------------------------
\* C25: discarding a step does not discard its dependents: the coordinator
\* adds to the discard set nothing but the names it is passed, and a Step of
\* the returned layer that is in no discard set is returned although a step
\* it depends on is discarded.
C25_DependentsNotDiscarded ==
    [][IsCall =>
        LET order == execution_order'.val
            ret == history'[Len(history')].ret
        IN /\ discarded_steps' = discarded_steps \cup steps_to_discard'
           /\ \A i \in (PointerBefore + 1)..execution_pointer' :
                \A b \in Elems(order[i]) \ discarded_steps' :
                    StepDependencies(execution_graph, b) \cap discarded_steps' # {} =>
                        /\ ~ret.isNone
                        /\ b \in Elems(ret.val)]_vars

\* A returned wave holds a Step whose direct Step predecessor was discarded
\* before its layer was reached and never ran.
C25_Witness ==
    /\ Len(history) >= 1
    /\ \E b \in Wave(Len(history)) : \E a \in discarded_steps \cap StepNodes :
            /\ <<a, b>> \in execution_graph.edges
            /\ \A i \in 1..Len(history) : a \notin Wave(i)

\* The names of the layers that are still pending after pointer ptr.
PendingNames(order, ptr) == UNION {Elems(order[i]) : i \in (ptr + 1)..Len(order)}

\* C26: a discard reported late has no effect: every call returns, and
\* moves the pointer to, what the discard set restricted to the steps of
\* the layers still pending gives, so a name whose layer was already
\* consumed when it was passed changes no later return value.
C26_LateDiscardInert ==
    [][IsCall =>
        LET order == execution_order'.val
            d == (discarded_steps \cup steps_to_discard')
                    \cap PendingNames(order, PointerBefore)
            live == LiveLayers(order, PointerBefore, d)
            ret == history'[Len(history')].ret
        IN /\ ret.isNone <=> live = {}
           /\ live = {} => execution_pointer' = Len(order)
           /\ live # {} =>
                /\ execution_pointer' = SetMin(live)
                /\ ret.val = SelectSeq(order[SetMin(live)], LAMBDA e : e \notin d)]_vars

\* The second call is passed a step that the first call returned, and
\* returns the whole second layer.
C26_Witness ==
    /\ Len(history) = 2
    /\ steps_to_discard \cap Wave(1) # {}
    /\ ~history[2].ret.isNone
    /\ history[2].ret.val = Layers[2]

----------------------------------------------------------------------------
\* C24: the coordinator does not detect premature re-entry: whatever steps
\* are still running, a call returns the wave that the layering of the
\* snapshot graph and the discard sets passed so far determine; a consumer
\* is then returned while its producer runs and its query of the mask that
\* is not yet registered fails with UnknownBranch.
C24_ReentryNotDetected ==
    [][IsCall =>
        LET order == establish_execution_order(execution_graph)
            d == discarded_steps \cup steps_to_discard'
            live == LiveLayers(order, PointerBefore, d)
            ret == history'[Len(history')].ret
        IN /\ execution_order' = Some(order)
           /\ ret = IF live = {}
                    THEN None
                    ELSE Some(SelectSeq(order[SetMin(live)], LAMBDA e : e \notin d))
           /\ running \subseteq running']_vars

\* A consumer returned while its producer is still running has queried the
\* producer's mask, which is not registered yet.
C24_Witness ==
    /\ bm_result = Raised("get_mask", exec_query.branch, GetMaskError)
    /\ exec_query.step \in running
    /\ exec_query.branch \in running
    /\ exec_query.branch \notin discarded_steps
    /\ <<exec_query.branch, exec_query.step>> \in execution_graph.edges

\* C21: the coordinator works on the graph as it was when init() was called:
\* whatever the caller adds to or removes from its graph afterwards, before
\* the first call or between calls, the coordinator's graph is the constructed
\* one, a change of the caller's graph changes nothing in the coordinator, and
\* every call returns the first live layer of the order of the constructed
\* graph.
C21_SnapshotIsolated ==
    [][/\ execution_graph' = constructed_graph
       /\ caller_graph' # caller_graph =>
                UNCHANGED <<discarded_steps, execution_order, execution_pointer,
                            steps_to_discard, history>>
       /\ IsCall =>
            LET order == establish_execution_order(constructed_graph)
                d == discarded_steps \cup steps_to_discard'
                live == LiveLayers(order, PointerBefore, d)
                ret == history'[Len(history')].ret
            IN /\ execution_order' = Some(order)
               /\ ret = IF live = {} THEN None
                        ELSE Some(SelectSeq(order[SetMin(live)], LAMBDA e : e \notin d))]_vars

\* A wave was returned by a coordinator whose caller has changed the graph in
\* a way that changes the layering.
C21_Witness ==
    /\ Len(history) >= 2
    /\ ~history[Len(history)].ret.isNone
    /\ caller_graph # constructed_graph
    /\ establish_execution_order(caller_graph) # execution_order.val
    /\ execution_order.val = establish_execution_order(constructed_graph)


\* C27: in every state of a BranchingManager made by init() or by the
\* constructor with initial masks, after any operations, failed ones included,
\* the mask map and the orientation map have the same keys, a branch is batch
\* oriented exactly when its stored mask is a set, and the outcome of the
\* latest get_mask, is_execution_branch_batch_oriented or
\* is_execution_branch_registered tells the same registration as the maps.
C27_MapsAgree ==
    /\ DOMAIN masks = DOMAIN batch_compatibility
    /\ \A b \in DOMAIN masks : batch_compatibility[b] <=> masks[b].kind = "set"
    /\ bm_result.op = "get_mask" =>
            (bm_result.raised = NoError <=> bm_result.branch \in DOMAIN batch_compatibility)
    /\ bm_result.op = "is_execution_branch_batch_oriented" =>
            /\ bm_result.raised = NoError <=> bm_result.branch \in DOMAIN masks
            /\ bm_result.raised = NoError =>
                    bm_result.value = PyBool(masks[bm_result.branch].kind = "set")
    /\ bm_result.op = "is_execution_branch_registered" =>
            bm_result.value = PyBool(/\ bm_result.branch \in DOMAIN masks
                                     /\ bm_result.branch \in DOMAIN batch_compatibility)

\* A manager holding a truthy bool given to the constructor and an empty set
\* registered later, asked for the orientation of the constructor's branch.
C27_Witness ==
    /\ bm_result.op = "is_execution_branch_batch_oriented"
    /\ bm_result.raised = NoError
    /\ bm_result.branch \in DOMAIN masks \ DOMAIN registered
    /\ masks[bm_result.branch] = PyBool(TRUE)
    /\ \E b \in DOMAIN registered : masks[b] = PySet({})

====
